---- MODULE Spec2Model ----
(***************************************************************************)
(* Momentum X: the time-power / difficulty / scoring core.                 *)
(*                                                                         *)
(* Times are in milliseconds, as in the source.  The time multiplier is a  *)
(* JavaScript number in {0.0, 0.5, 1.0, 2.0}; it is kept here in tenths    *)
(* (0, 5, 10, 20), which is exact.  The score is a JavaScript number whose *)
(* value depends on the rounding of each addition, so it is kept as the    *)
(* IEEE 754 double it is.                                                  *)
(***************************************************************************)
EXTENDS Integers, Sequences, FiniteSets, TLC

(***************************************************************************)
(* GAME_CONFIG                                                             *)
(***************************************************************************)
FREEZE_DURATION == 2000
FREEZE_COOLDOWN == 5000
SLOW_DURATION == 3000
SLOW_COOLDOWN == 4000
SPEED_DURATION == 1500
SPEED_COOLDOWN == 6000
SCORE_PER_SECOND == 1
SCORE_PER_OBSTACLE == 5
DIFFICULTY_INTERVAL == 20000
\* DIFFICULTY_SPEED_INCREASE is 0.2; kept in tenths
DIFFICULTY_SPEED_INCREASE_TENTHS == 2
DIFFICULTY_SPAWN_DECREASE == 150
OBSTACLE_SPAWN_RATE == 1500
OBSTACLE_MIN_GAP == 500
OBSTACLE_MIN_SPEED == 200
CANVAS_WIDTH == 1200
CANVAS_HEIGHT == 600
PLAYER_WIDTH == 40
PLAYER_HEIGHT == 60
PLAYER_X == 100
PLAYER_Y == 480
PLAYER_SPEED == 300

\* GAME_STATES
GAME_STATES == [MENU |-> "menu", PLAYING |-> "playing", GAME_OVER |-> "gameOver"]

\* OBSTACLE_TYPES
OBSTACLE_TYPES == [SPIKE |-> "spike", DEBRIS |-> "debris", LASER |-> "laser"]

\* TIME_STATES
TIME_STATES == [NORMAL |-> "normal", FROZEN |-> "frozen", SLOW |-> "slow", FAST |-> "fast"]

(***************************************************************************)
(* Inputs                                                                  *)
(***************************************************************************)
\* Tick deltas handed to PowerManager.update: zero, sub-duration steps and
\* steps that overshoot every remaining duration.
PMDeltas == {0, 250, 500, 1000, 2500}

\* Frame deltas of the game loop (currentTime - lastTime): a repeated
\* timestamp, ordinary steps, and the long gap of a frame source that was
\* suspended.  All are multiples of 100 ms, which keeps positions integral.
FrameDeltas == {0, 500, 1500, 20000}

\* Each run is followed for at most this many frames
MaxFrames == 3

\* Frame deltas that cross difficulty intervals, and the number of such
\* frames a run is followed for
RampDeltas == {20000, 60000}

MaxRampFrames == 3

\* Frame deltas that split one stretch of time in different ways (300 ms is
\* one frame, or 100 ms and 200 ms, or three times 100 ms), and the number
\* of such frames a run is followed for
FineDeltas == {100, 200, 300}

MaxFineFrames == 3

\* Deltas of the first frame after start(): start() stores performance.now()
\* in lastTime, and the first callback's timestamp is the time at which its
\* rendering frame began, which can lie before the key handler that called
\* start() ran.  The number of frames a run with such a first frame is
\* followed for.
FirstDeltas == {-10, 0, 10}

MaxSkewFrames == 3

\* ... and for at most this many presses of a power key
MaxPresses == 1

\* What Math.random() decides in spawnObstacle: the type and, for debris and
\* lasers, a height from randomBetween.  The spike and this laser meet the
\* player's band, this debris clears it.
SpawnChoices ==
    {[type |-> "spike", y |-> 0],
     [type |-> "debris", y |-> 200],
     [type |-> "laser", y |-> 370]}

\* Positive deltas of the PowerManager's update while play goes on
\* frames that take a run across the first difficulty interval with an
\* obstacle on the field
LevelDeltas == {1500, 17000}
MaxLevelFrames == 3

\* the keyboard: keydown events, repeated while a key is held, and keyup
\* events, in a run followed for this many frames and power-key presses
KeysDeltas == {500, 20000}
MaxKeysFrames == 2
MaxKeysPresses == 1

\* the loop driven through start, restart and stop
LoopDeltas == {500, 1500}
MaxLoopFrames == 3
MaxScheduled == 2

LiveDeltas == {1000, 3000}

\* Frame deltas around a Freeze: 500 + 1500 and 1500 + 500 end exactly at
\* its 2000 ms, 1500 + 1500 overshoots them
FreezeDeltas == {500, 1500}

MaxFreezeFrames == 3

MaxFreezePresses == 2

\* Deltas and multipliers for the ObstacleManager driven directly.  At the base
\* speed and multiplier 1.0 an obstacle needs 5550 ms to touch the player's
\* leading edge, 350 ms more for a spike's trailing edge to touch the player's
\* other edge, and 6500 ms to end 50 px past the left border.
OMDeltas == {350, 5550, 6500}

OMMultipliers == {0, 5, 10, 20}

\* The manager is followed for at most this many updateObstacles calls
MaxOMSteps == 3

\* ... and for at most this many spawnObstacle calls
MaxOMSpawned == 2

\* Object.keys(this.powers), in insertion order
PowerNames == <<"freeze", "slow", "speed">>

PowerSet == {PowerNames[i] : i \in 1..Len(PowerNames)}

VARIABLES
    state,             \* Game.state
    score,             \* Game.score, a JavaScript number
    timeElapsed,       \* Game.timeElapsed
    difficultyLevel,   \* Game.difficultyLevel
    isRunning,         \* Game.isRunning
    keyPressed,        \* Game.keyPressed: key code -> whether the key is held
    scheduled,         \* the number of gameLoop callbacks that
                       \* requestAnimationFrame holds for the next frame
    player,            \* Player: [x, y]
    obstacleManager,   \* ObstacleManager: [obstacles, lastSpawnTime, spawnRate,
                       \*   difficultyLevel, totalSpawned, totalDestroyed]
    frame,             \* history: the locals of the last Game.update
    frames,            \* history: the number of updates of the current run
    presses,           \* history: the number of power-key presses of the current run
    run,               \* history: totals of the current run: [clock, passed]
    powers,            \* PowerManager.powers: name -> [active, cooldown, duration]
    currentTimeState,  \* PowerManager.currentTimeState
    timeMultiplier,    \* PowerManager.timeMultiplier, in tenths
    lastOp,            \* history: the last operation and its outcome
    since,             \* history: per power, ms ticked since its last successful
                       \* activation (capped at its cooldown), -1 if none
    lastActivated      \* history: the power activated last and not disturbed since

pmVars == <<powers, currentTimeState, timeMultiplier>>

histVars == <<lastOp, since, lastActivated>>

gameVars == <<state, score, timeElapsed, difficultyLevel, isRunning, keyPressed,
              scheduled, player, obstacleManager, frame, frames, presses, run>>

vars == <<state, score, timeElapsed, difficultyLevel, isRunning, keyPressed,
          scheduled, player, obstacleManager, frame, frames, presses, run, powers, currentTimeState,
          timeMultiplier, lastOp, since, lastActivated>>

(***************************************************************************)
(* PowerManager (src/src/powers.js)                                        *)
(***************************************************************************)
maxDuration ==
    [freeze |-> FREEZE_DURATION, slow |-> SLOW_DURATION, speed |-> SPEED_DURATION]

maxCooldown ==
    [freeze |-> FREEZE_COOLDOWN, slow |-> SLOW_COOLDOWN, speed |-> SPEED_COOLDOWN]

\* The PowerManager object as one value
PM == [powers |-> powers, currentTimeState |-> currentTimeState,
       timeMultiplier |-> timeMultiplier]

\* constructor()
PowerManagerNew ==
    [powers |-> [n \in PowerSet |-> [active |-> FALSE, cooldown |-> 0, duration |-> 0]],
     currentTimeState |-> TIME_STATES.NORMAL,
     timeMultiplier |-> 10]

updateTimeState(S) ==
    IF S.powers["freeze"].active
    THEN [S EXCEPT !.currentTimeState = TIME_STATES.FROZEN, !.timeMultiplier = 0]
    ELSE IF S.powers["slow"].active
    THEN [S EXCEPT !.currentTimeState = TIME_STATES.SLOW, !.timeMultiplier = 5]
    ELSE IF S.powers["speed"].active
    THEN [S EXCEPT !.currentTimeState = TIME_STATES.FAST, !.timeMultiplier = 20]
    ELSE [S EXCEPT !.currentTimeState = TIME_STATES.NORMAL, !.timeMultiplier = 10]

\* variant: the cooldown is not consulted
canActivatePower_IgnoreCooldown(S, powerName) ==
    IF powerName \notin DOMAIN S.powers THEN FALSE
    ELSE ~S.powers[powerName].active

canActivatePower(S, powerName) ==
    IF powerName \notin DOMAIN S.powers THEN FALSE
    ELSE S.powers[powerName].cooldown <= 0 /\ ~S.powers[powerName].active

\* variant: deactivation also clears the cooldown
deactivatePower_Refund(S, powerName) ==
    IF powerName \notin DOMAIN S.powers THEN S
    ELSE updateTimeState([S EXCEPT !.powers[powerName].active = FALSE,
                                   !.powers[powerName].duration = 0,
                                   !.powers[powerName].cooldown = 0])

\* variant: the time state is not recomputed
deactivatePower_NoRefresh(S, powerName) ==
    IF powerName \notin DOMAIN S.powers THEN S
    ELSE [S EXCEPT !.powers[powerName].active = FALSE,
                   !.powers[powerName].duration = 0]

\* variant: the remaining duration is left as it was
deactivatePower_KeepDuration(S, powerName) ==
    IF powerName \notin DOMAIN S.powers THEN S
    ELSE updateTimeState([S EXCEPT !.powers[powerName].active = FALSE])

deactivatePower(S, powerName) ==
    IF powerName \notin DOMAIN S.powers THEN S
    ELSE updateTimeState([S EXCEPT !.powers[powerName].active = FALSE,
                                   !.powers[powerName].duration = 0])

RECURSIVE deactivateFrom(_, _)
\* the forEach of deactivateAllPowers, from the i-th key on
deactivateFrom(S, i) ==
    IF i > Len(PowerNames) THEN S
    ELSE deactivateFrom(IF S.powers[PowerNames[i]].active
                        THEN deactivatePower(S, PowerNames[i])
                        ELSE S, i + 1)

deactivateAllPowers(S) == deactivateFrom(S, 1)

\* variant: the other powers are left running
activate_KeepOthers(S, powerName) ==
    IF ~canActivatePower(S, powerName)
    THEN [pm |-> S, ok |-> FALSE]
    ELSE LET A == [S EXCEPT !.powers[powerName].active = TRUE,
                            !.powers[powerName].duration = maxDuration[powerName],
                            !.powers[powerName].cooldown = maxCooldown[powerName]]
         IN [pm |-> updateTimeState(A), ok |-> TRUE]

\* variant: the other powers are deactivated before the availability check
activate_DeactivateFirst(S, powerName) ==
    LET D == deactivateAllPowers(S)
    IN IF ~canActivatePower(D, powerName)
       THEN [pm |-> D, ok |-> FALSE]
       ELSE LET A == [D EXCEPT !.powers[powerName].active = TRUE,
                               !.powers[powerName].duration = maxDuration[powerName],
                               !.powers[powerName].cooldown = maxCooldown[powerName]]
            IN [pm |-> updateTimeState(A), ok |-> TRUE]

\* The body shared by activateFreeze / activateSlow / activateSpeed:
\* the new object and the value returned
activate(S, powerName) ==
    IF ~canActivatePower(S, powerName)
    THEN [pm |-> S, ok |-> FALSE]
    ELSE LET D == deactivateAllPowers(S)
             A == [D EXCEPT !.powers[powerName].active = TRUE,
                            !.powers[powerName].duration = maxDuration[powerName],
                            !.powers[powerName].cooldown = maxCooldown[powerName]]
         IN [pm |-> updateTimeState(A), ok |-> TRUE]

activateFreeze(S) == activate(S, "freeze")

activateSlow(S) == activate(S, "slow")

activateSpeed(S) == activate(S, "speed")

\* variant: the cooldown runs only while the power is not active
updatePower_CooldownAfterExpiry(S, powerName, deltaTime) ==
    LET p == S.powers[powerName]
        c == p.cooldown
    IN IF p.active
       THEN LET T == [S EXCEPT !.powers[powerName].duration = p.duration - deltaTime]
            IN IF T.powers[powerName].duration <= 0
               THEN deactivatePower(T, powerName)
               ELSE T
       ELSE IF c > 0
       THEN [S EXCEPT !.powers[powerName].cooldown =
                          IF c - deltaTime <= 0 THEN 0 ELSE c - deltaTime]
       ELSE S

\* variant: the cooldown is left alone
updatePower_NoCooldown(S, powerName, deltaTime) ==
    LET p == S.powers[powerName]
    IN IF p.active
       THEN LET T == [S EXCEPT !.powers[powerName].duration = p.duration - deltaTime]
            IN IF T.powers[powerName].duration <= 0
               THEN deactivatePower(T, powerName)
               ELSE T
       ELSE S

\* variant: the cooldown is not clamped at zero
updatePower_NoClamp(S, powerName, deltaTime) ==
    LET p == S.powers[powerName]
        S1 == IF p.active
              THEN LET T == [S EXCEPT !.powers[powerName].duration = p.duration - deltaTime]
                   IN IF T.powers[powerName].duration <= 0
                      THEN deactivatePower(T, powerName)
                      ELSE T
              ELSE S
        c == S1.powers[powerName].cooldown
    IN IF c > 0
       THEN [S1 EXCEPT !.powers[powerName].cooldown = c - deltaTime]
       ELSE S1

\* variant: a power expires only once its duration is below zero
updatePower_Strict(S, powerName, deltaTime) ==
    LET p == S.powers[powerName]
        S1 == IF p.active
              THEN LET T == [S EXCEPT !.powers[powerName].duration = p.duration - deltaTime]
                   IN IF T.powers[powerName].duration < 0
                      THEN deactivatePower(T, powerName)
                      ELSE T
              ELSE S
        c == S1.powers[powerName].cooldown
    IN IF c > 0
       THEN [S1 EXCEPT !.powers[powerName].cooldown =
                           IF c - deltaTime <= 0 THEN 0 ELSE c - deltaTime]
       ELSE S1

\* One iteration of the forEach in update(deltaTime)
updatePower(S, powerName, deltaTime) ==
    LET p == S.powers[powerName]
        S1 == IF p.active
              THEN LET T == [S EXCEPT !.powers[powerName].duration = p.duration - deltaTime]
                   IN IF T.powers[powerName].duration <= 0
                      THEN deactivatePower(T, powerName)
                      ELSE T
              ELSE S
        c == S1.powers[powerName].cooldown
    IN IF c > 0
       THEN [S1 EXCEPT !.powers[powerName].cooldown =
                           IF c - deltaTime <= 0 THEN 0 ELSE c - deltaTime]
       ELSE S1

RECURSIVE updateFrom(_, _, _)
updateFrom(S, i, deltaTime) ==
    IF i > Len(PowerNames) THEN S
    ELSE updateFrom(updatePower(S, PowerNames[i], deltaTime), i + 1, deltaTime)

\* update(deltaTime)
update(S, deltaTime) == updateTimeState(updateFrom(S, 1, deltaTime))

\* reset()
\* variant: the cooldowns survive the reset
reset_KeepCooldown(S) ==
    [S EXCEPT !.powers = [n \in PowerSet |->
                             [active |-> FALSE, cooldown |-> S.powers[n].cooldown,
                              duration |-> 0]],
              !.currentTimeState = TIME_STATES.NORMAL,
              !.timeMultiplier = 10]

reset(S) ==
    [S EXCEPT !.powers = [n \in PowerSet |->
                             [active |-> FALSE, cooldown |-> 0, duration |-> 0]],
              !.currentTimeState = TIME_STATES.NORMAL,
              !.timeMultiplier = 10]

(***************************************************************************)
(* JavaScript numbers as the score uses them: IEEE 754 binary64, every     *)
(* operation rounded to nearest, ties to even.  A number is a sign and a   *)
(* magnitude; the magnitude <<l0, l1, l2>> stands for                      *)
(* (l0 + l1 * 2^25 + l2 * 2^50) / 2^64, which holds every double between   *)
(* 2^-12 and 2^11 exactly, and exactly the sum or difference of two.       *)
(***************************************************************************)
Pow2(r) == 2 ^ r

RECURSIVE BitLen(_)
\* the number of binary digits of x
BitLen(x) == IF x = 0 THEN 0 ELSE 1 + BitLen(x \div 2)

Abs(n) == IF n < 0 THEN -n ELSE n

Limb == Pow2(25)

MagZero == <<0, 0, 0>>

\* exact sum
MagAdd(a, b) ==
    LET s0 == a[1] + b[1]
        s1 == a[2] + b[2] + s0 \div Limb
    IN <<s0 % Limb, s1 % Limb, a[3] + b[3] + s1 \div Limb>>

MagLeq(a, b) ==
    \/ a[3] < b[3]
    \/ a[3] = b[3] /\ a[2] < b[2]
    \/ a[3] = b[3] /\ a[2] = b[2] /\ a[1] <= b[1]

\* exact difference, for b <= a
MagSub(a, b) ==
    LET d0 == a[1] - b[1]
        b0 == IF d0 < 0 THEN 1 ELSE 0
        d1 == a[2] - b[2] - b0
        b1 == IF d1 < 0 THEN 1 ELSE 0
    IN <<d0 + b0 * Limb, d1 + b1 * Limb, a[3] - b[3] - b1>>

\* rounding to 53 significant digits, to nearest, ties to even: a magnitude
\* with a[3] < 2^3 has at most 53 digits; one with 3 + r digits in a[3] loses
\* its last r digits, which are all in a[1], and q is 2^r
Round53(a) ==
    IF a[3] < 8 THEN a
    ELSE LET q == Pow2(BitLen(a[3] \div 8))
             rem == a[1] % q
             odd == (a[1] \div q) % 2 = 1
             up == rem > q \div 2 \/ (rem = q \div 2 /\ odd)
             lo == a[1] - rem + (IF up THEN q ELSE 0)
         IN MagAdd(<<0, a[2], a[3]>>, <<lo % Limb, lo \div Limb, 0>>)

\* the next n digits of the binary expansion of r / den, as a number, and
\* the remainder left, for r < den < 2^10 and n <= 21
DivBits(r, den, n) == <<(r * Pow2(n)) \div den, (r * Pow2(n)) % den>>

\* num / den correctly rounded, for integers num >= 0 and 0 < den < 2^10;
\* what is left after 64 binary places is kept as a sticky last digit
MagQuot(num, den) ==
    LET d1 == DivBits(num % den, den, 14)
        d2 == DivBits(d1[2], den, 13)
        d3 == DivBits(d2[2], den, 12)
        d4 == DivBits(d3[2], den, 13)
        d5 == DivBits(d4[2], den, 12)
        lo == d4[1] * Pow2(12) + d5[1]
        sticky == IF d5[2] # 0 /\ lo % 2 = 0 THEN 1 ELSE 0
    IN Round53(<<lo + sticky, d2[1] * Pow2(12) + d3[1],
                 (num \div den) * Pow2(14) + d1[1]>>)

Num(neg, m) == [neg |-> neg /\ m # MagZero, m |-> m]

NumZero == Num(FALSE, MagZero)

\* the integer n as a number
NumOfInt(n) == Num(n < 0, <<0, 0, Abs(n) * Pow2(14)>>)

\* n / d for integers n and d > 0
NumQuot(n, d) == Num(n < 0, MagQuot(Abs(n), d))

\* a * k for k = 1 or k = 2, which is exact
NumTimes(a, k) == IF k = 1 THEN a ELSE Num(a.neg, MagAdd(a.m, a.m))

\* a + b
NumPlus(a, b) ==
    IF a.neg = b.neg THEN Num(a.neg, Round53(MagAdd(a.m, b.m)))
    ELSE IF MagLeq(b.m, a.m) THEN Num(a.neg, Round53(MagSub(a.m, b.m)))
    ELSE Num(b.neg, Round53(MagSub(b.m, a.m)))

\* a <= b
NumLeq(a, b) ==
    IF a.neg # b.neg THEN a.neg
    ELSE IF a.neg THEN MagLeq(b.m, a.m)
    ELSE MagLeq(a.m, b.m)

\* Math.floor(a)
NumFloor(a) ==
    LET whole == a.m[3] \div Pow2(14)
        fraction == a.m[1] # 0 \/ a.m[2] # 0 \/ a.m[3] % Pow2(14) # 0
    IN IF a.neg THEN (IF fraction THEN -(whole + 1) ELSE -whole) ELSE whole

(***************************************************************************)
(* Player (src/src/player.js)                                              *)
(***************************************************************************)
clamp(value, min, max) ==
    LET lo == IF value > min THEN value ELSE min
    IN IF lo < max THEN lo ELSE max

PlayerNew == [x |-> PLAYER_X, y |-> PLAYER_Y]

\* Player.update(deltaTime), speedMultiplier defaulting to 1.0
PlayerUpdate(P, deltaTime) ==
    [P EXCEPT !.x = clamp(P.x + (PLAYER_SPEED * deltaTime) \div 1000,
                          50, CANVAS_WIDTH - PLAYER_WIDTH - 50)]

\* Player.getBounds()
PlayerBounds(P) == [x |-> P.x, y |-> P.y, width |-> PLAYER_WIDTH, height |-> PLAYER_HEIGHT]

\* Player.reset()
PlayerReset(P) == [P EXCEPT !.x = PLAYER_X, !.y = PLAYER_Y]

(***************************************************************************)
(* Obstacle and ObstacleManager (src/src/obstacles.js)                     *)
(***************************************************************************)
\* setDimensionsByType
ObstacleWidth(type) ==
    CASE type = OBSTACLE_TYPES.SPIKE -> 30
      [] type = OBSTACLE_TYPES.DEBRIS -> 50
      [] type = OBSTACLE_TYPES.LASER -> 15
      [] OTHER -> 40

ObstacleHeight(type) ==
    CASE type = OBSTACLE_TYPES.SPIKE -> 80
      [] type = OBSTACLE_TYPES.DEBRIS -> 50
      [] type = OBSTACLE_TYPES.LASER -> 120
      [] OTHER -> 60

\* new Obstacle(x, y, type, speed); counted is history: the number of times
\* checkObstaclesPassed has counted this obstacle; serial is history: the
\* rank of the obstacle among those its manager has spawned since its reset
ObstacleNew(x, y, type, speed) ==
    [x |-> x, y |-> y, type |-> type, speed |-> speed, hasBeenPassed |-> FALSE,
     counted |-> 0, serial |-> 0]

\* variant: the obstacle moves at its own speed whatever the multiplier
ObstacleUpdate_NoMultiplier(o, deltaTime, speedMultiplier) ==
    [o EXCEPT !.x = o.x - (o.speed * deltaTime) \div 1000]

\* Obstacle.update(deltaTime, speedMultiplier): speedMultiplier is in tenths
ObstacleUpdate(o, deltaTime, speedMultiplier) ==
    [o EXCEPT !.x = o.x - (o.speed * speedMultiplier * deltaTime) \div 10000]

ObstacleBounds(o) ==
    [x |-> o.x, y |-> o.y, width |-> ObstacleWidth(o.type), height |-> ObstacleHeight(o.type)]

\* variant: an obstacle whose trailing edge is on the border is off-screen
isOffScreen_AtBorder(o) == o.x + ObstacleWidth(o.type) <= 0

\* isOffScreen()
isOffScreen(o) == o.x + ObstacleWidth(o.type) < 0

\* variant: the flag is not consulted
hasPlayerPassed_NoFlag(o, playerX) == o.x + ObstacleWidth(o.type) < playerX

hasPlayerPassed(o, playerX) == ~o.hasBeenPassed /\ o.x + ObstacleWidth(o.type) < playerX

\* variant: rectangles that share an edge collide
checkCollision_Touching(rect1, rect2) ==
    /\ rect1.x <= rect2.x + rect2.width
    /\ rect1.x + rect1.width >= rect2.x
    /\ rect1.y <= rect2.y + rect2.height
    /\ rect1.y + rect1.height >= rect2.y

\* checkCollision(rect1, rect2) of utils.js
checkCollision(rect1, rect2) ==
    /\ rect1.x < rect2.x + rect2.width
    /\ rect1.x + rect1.width > rect2.x
    /\ rect1.y < rect2.y + rect2.height
    /\ rect1.y + rect1.height > rect2.y

ObstacleManagerNew ==
    [obstacles |-> <<>>, lastSpawnTime |-> 0, spawnRate |-> OBSTACLE_SPAWN_RATE,
     difficultyLevel |-> 0, totalSpawned |-> 0, totalDestroyed |-> 0]

Max(a, b) == IF a > b THEN a ELSE b

\* variant: the interval is not held at the minimum gap
updateSpawnRate_NoFloor(M) ==
    [M EXCEPT !.spawnRate =
        OBSTACLE_SPAWN_RATE - M.difficultyLevel * DIFFICULTY_SPAWN_DECREASE]

updateSpawnRate(M) ==
    [M EXCEPT !.spawnRate =
        Max(OBSTACLE_MIN_GAP,
            OBSTACLE_SPAWN_RATE - M.difficultyLevel * DIFFICULTY_SPAWN_DECREASE)]

getSpawnYForType(type, y) ==
    LET groundLevel == CANVAS_HEIGHT - 100
    IN CASE type = OBSTACLE_TYPES.SPIKE -> groundLevel - 80
         [] type = OBSTACLE_TYPES.DEBRIS -> y
         [] type = OBSTACLE_TYPES.LASER -> y
         [] OTHER -> groundLevel - 60

\* spawnObstacle(); choice is what Math.random() decided
spawnObstacle(M, choice) ==
    LET spawnX == CANVAS_WIDTH + 50
        spawnY == getSpawnYForType(choice.type, choice.y)
        speed == OBSTACLE_MIN_SPEED
                 + (M.difficultyLevel * DIFFICULTY_SPEED_INCREASE_TENTHS * OBSTACLE_MIN_SPEED) \div 10
    IN [M EXCEPT !.obstacles =
                     Append(@, [ObstacleNew(spawnX, spawnY, choice.type, speed)
                                   EXCEPT !.serial = M.totalSpawned + 1]),
                 !.totalSpawned = @ + 1]

\* variant: the next spawn is scheduled one interval after the last one
handleSpawning_Drift(M, elapsed, choice) ==
    IF elapsed - M.lastSpawnTime >= M.spawnRate
    THEN [spawnObstacle(M, choice) EXCEPT !.lastSpawnTime = M.lastSpawnTime + M.spawnRate]
    ELSE M

handleSpawning(M, elapsed, choice) ==
    IF elapsed - M.lastSpawnTime >= M.spawnRate
    THEN [spawnObstacle(M, choice) EXCEPT !.lastSpawnTime = elapsed]
    ELSE M

\* variant: every stored obstacle takes the speed of the current level
updateObstacles_LevelSpeed(M, deltaTime, speedMultiplier) ==
    [M EXCEPT !.obstacles =
        [i \in 1..Len(@) |->
            ObstacleUpdate(
                [@[i] EXCEPT !.speed =
                    OBSTACLE_MIN_SPEED
                    + (M.difficultyLevel * DIFFICULTY_SPEED_INCREASE_TENTHS
                       * OBSTACLE_MIN_SPEED) \div 10],
                deltaTime, speedMultiplier)]]

\* updateObstacles(deltaTime, speedMultiplier)
updateObstacles(M, deltaTime, speedMultiplier) ==
    [M EXCEPT !.obstacles =
        [i \in 1..Len(@) |-> ObstacleUpdate(@[i], deltaTime, speedMultiplier)]]

\* variant: removals are not counted
removeOffscreenObstacles_NoCount(M) ==
    [M EXCEPT !.obstacles = SelectSeq(M.obstacles, LAMBDA o : ~isOffScreen(o))]

\* removeOffscreenObstacles()
removeOffscreenObstacles(M) ==
    LET kept == SelectSeq(M.obstacles, LAMBDA o : ~isOffScreen(o))
    IN [M EXCEPT !.obstacles = kept,
                 !.totalDestroyed = @ + (Len(M.obstacles) - Len(kept))]

\* variant: the spawn decision is taken before the new level is stored
ObstacleManagerSpawn_StaleLevel(M, elapsed, level, choice) ==
    [handleSpawning(updateSpawnRate(M), elapsed, choice) EXCEPT !.difficultyLevel = level]

\* ObstacleManager.update up to and including handleSpawning
ObstacleManagerSpawn(M, elapsed, level, choice) ==
    handleSpawning(updateSpawnRate([M EXCEPT !.difficultyLevel = level]), elapsed, choice)

\* ObstacleManager.update up to and including updateObstacles
ObstacleManagerMove(M, deltaTime, elapsed, level, speedMultiplier, choice) ==
    updateObstacles(ObstacleManagerSpawn(M, elapsed, level, choice),
                    deltaTime, speedMultiplier)

\* ObstacleManager.update(deltaTime, timeElapsed, difficultyLevel, speedMultiplier)
ObstacleManagerUpdate(M, deltaTime, elapsed, level, speedMultiplier, choice) ==
    removeOffscreenObstacles(
        ObstacleManagerMove(M, deltaTime, elapsed, level, speedMultiplier, choice))

\* variant: only the obstacle stored first is tested
checkCollisions_FirstOnly(M, P) ==
    IF /\ Len(M.obstacles) > 0
       /\ checkCollision(PlayerBounds(P), ObstacleBounds(M.obstacles[1]))
    THEN 1 ELSE 0

\* checkCollisions(player): the index of the first colliding obstacle, 0 for null
checkCollisions(M, P) ==
    LET hits == {i \in 1..Len(M.obstacles) :
                    checkCollision(PlayerBounds(P), ObstacleBounds(M.obstacles[i]))}
    IN IF hits = {} THEN 0 ELSE CHOOSE i \in hits : \A j \in hits : i <= j

\* checkObstaclesPassed(playerX): the manager after marking, and the count
checkObstaclesPassed(M, playerX) ==
    LET passed == {i \in 1..Len(M.obstacles) : hasPlayerPassed(M.obstacles[i], playerX)}
    IN [om |-> [M EXCEPT !.obstacles =
                   [i \in 1..Len(@) |->
                       IF i \in passed
                       THEN [@[i] EXCEPT !.hasBeenPassed = TRUE, !.counted = @ + 1]
                       ELSE @[i]]],
        count |-> Cardinality(passed)]

\* ObstacleManager.reset()
ObstacleManagerReset(M) ==
    [M EXCEPT !.obstacles = <<>>, !.lastSpawnTime = 0, !.spawnRate = OBSTACLE_SPAWN_RATE,
              !.difficultyLevel = 0, !.totalSpawned = 0, !.totalDestroyed = 0]

(***************************************************************************)
(* Game (src/src/player.js, the class that drives the PowerManager).       *)
(* Scene, camera, particle and DOM calls do not touch the state kept here. *)
(***************************************************************************)
\* the key codes handleKeyPress has a case for
KeyCodes == {"Space", "KeyR", "KeyF", "KeyQ", "KeyE"}

\* The Game object as one value, with the callbacks it has handed to
\* requestAnimationFrame
GameObj ==
    [state |-> state, score |-> score, timeElapsed |-> timeElapsed,
     difficultyLevel |-> difficultyLevel, isRunning |-> isRunning,
     keyPressed |-> keyPressed, scheduled |-> scheduled,
     player |-> player, obstacleManager |-> obstacleManager, powerManager |-> PM]

\* constructor() and init(); a code missing from keyPressed reads as false
GameNew ==
    [state |-> GAME_STATES.MENU, score |-> NumZero, timeElapsed |-> 0, difficultyLevel |-> 0,
     isRunning |-> FALSE, keyPressed |-> [code \in KeyCodes |-> FALSE], scheduled |-> 0,
     player |-> PlayerNew, obstacleManager |-> ObstacleManagerNew,
     powerManager |-> PowerManagerNew]

\* the locals of an update that returned at once; scoreText and finalScoreText
\* hold the number updateUI and handleGameOver wrote to the page in this
\* update, and nothing if they wrote none
NoFrame == [ran |-> FALSE, timeMultiplier |-> 10, timeState |-> "normal",
            collided |-> FALSE, hit |-> 0, obstaclesPassed |-> 0, spawned |-> FALSE,
            spawnedSpeed |-> 0, removedCounts |-> {}, scoreText |-> <<>>,
            finalScoreText |-> <<>>]

Floor(a, b) == a \div b

\* variant: the level is rounded up
updateDifficulty_Ceil(G) ==
    LET newDifficultyLevel == (G.timeElapsed + DIFFICULTY_INTERVAL - 1)
                                  \div DIFFICULTY_INTERVAL
    IN IF newDifficultyLevel > G.difficultyLevel
       THEN [G EXCEPT !.difficultyLevel = newDifficultyLevel]
       ELSE G

updateDifficulty(G) ==
    LET newDifficultyLevel == Floor(G.timeElapsed, DIFFICULTY_INTERVAL)
    IN IF newDifficultyLevel > G.difficultyLevel
       THEN [G EXCEPT !.difficultyLevel = newDifficultyLevel]
       ELSE G

\* variant: the run clock advances in game time, scaled by the multiplier
updateTimeElapsed_Scaled(G, deltaTime) ==
    [G EXCEPT !.timeElapsed = @ + (deltaTime * G.powerManager.timeMultiplier) \div 10]

\* this.timeElapsed += deltaTime
updateTimeElapsed(G, deltaTime) == [G EXCEPT !.timeElapsed = @ + deltaTime]

\* variant: the time score is not doubled during the speed power
updateScore_NoDouble(G, deltaTime) ==
    [G EXCEPT !.score = NumPlus(@, NumQuot(deltaTime, 1000))]

\* updateScore(deltaTime)
updateScore(G, deltaTime) ==
    LET scoreMultiplier ==
            IF G.powerManager.currentTimeState = TIME_STATES.FAST THEN 2 ELSE 1
        timeScore == NumTimes(NumTimes(NumQuot(deltaTime, 1000), SCORE_PER_SECOND),
                              scoreMultiplier)
    IN [G EXCEPT !.score = NumPlus(@, timeScore)]

\* variant: the run goes on after the collision
handleGameOver_Grace(G) == G

\* handleGameOver()
handleGameOver(G) == [G EXCEPT !.state = GAME_STATES.GAME_OVER]

\* Game.update(deltaTime) after the reading of the multiplier and of the time
\* state; G3 is the game as updateScore left it, mult and timeState are the
\* locals timeMultiplier and timeState
GameUpdateFrom(G3, mult, timeState, deltaTime, choice) ==
    LET G4 == [G3 EXCEPT !.powerManager = update(@, deltaTime)]
        G5 == [G4 EXCEPT !.player = PlayerUpdate(@, deltaTime)]
        G6 == [G5 EXCEPT !.obstacleManager =
                  ObstacleManagerUpdate(@, deltaTime, G5.timeElapsed,
                                        G5.difficultyLevel, mult, choice)]
        collidedObstacle == checkCollisions(G6.obstacleManager, G6.player)
        P == checkObstaclesPassed(G6.obstacleManager, G6.player.x)
        scoreMultiplier == IF timeState = TIME_STATES.FAST THEN 2 ELSE 1
        \* history: the manager right after this update's spawn decision and
        \* right before its removal of off-screen obstacles
        S == ObstacleManagerSpawn(G5.obstacleManager, G5.timeElapsed,
                                  G5.difficultyLevel, choice)
        Mv == ObstacleManagerMove(G5.obstacleManager, deltaTime, G5.timeElapsed,
                                  G5.difficultyLevel, mult, choice)
        didSpawn == S.totalSpawned # G5.obstacleManager.totalSpawned
        F == [ran |-> TRUE, timeMultiplier |-> mult, timeState |-> timeState,
              collided |-> collidedObstacle # 0, hit |-> collidedObstacle,
              obstaclesPassed |-> 0,
              spawned |-> didSpawn,
              spawnedSpeed |-> IF didSpawn THEN S.obstacles[Len(S.obstacles)].speed
                               ELSE 0,
              removedCounts |-> {Mv.obstacles[i].counted :
                                    i \in {j \in 1..Len(Mv.obstacles) :
                                              isOffScreen(Mv.obstacles[j])}},
              scoreText |-> <<>>, finalScoreText |-> <<>>]
        scored == IF P.count > 0
                  THEN NumPlus(G6.score, NumOfInt(P.count * SCORE_PER_OBSTACLE
                                                          * scoreMultiplier))
                  ELSE G6.score
    IN IF collidedObstacle # 0
       THEN [g |-> handleGameOver(G6),
             f |-> [F EXCEPT !.finalScoreText = <<NumFloor(G6.score)>>]]
       ELSE [g |-> [G6 EXCEPT !.obstacleManager = P.om, !.score = scored],
             f |-> [F EXCEPT !.obstaclesPassed = P.count,
                             !.scoreText = <<NumFloor(scored)>>]]

\* variant: the multiplier and the time state are read after the power timers
\* were updated
GameUpdateSystems_ReadAfter(G3, deltaTime, choice) ==
    GameUpdateFrom(G3, update(G3.powerManager, deltaTime).timeMultiplier,
                   update(G3.powerManager, deltaTime).currentTimeState,
                   deltaTime, choice)

\* Game.update(deltaTime) from the reading of the multiplier on
GameUpdateSystems(G3, deltaTime, choice) ==
    GameUpdateFrom(G3, G3.powerManager.timeMultiplier,
                   G3.powerManager.currentTimeState, deltaTime, choice)

\* variant: update does not look at the state
GameUpdate_NoGuard(G, deltaTime, choice) ==
    GameUpdateSystems(
        updateScore(updateDifficulty(updateTimeElapsed(G, deltaTime)), deltaTime),
        deltaTime, choice)

\* Game.update(deltaTime): the game after the call and, in f, its locals
GameUpdate(G, deltaTime, choice) ==
    IF G.state # GAME_STATES.PLAYING THEN [g |-> G, f |-> NoFrame]
    ELSE GameUpdateSystems(
             updateScore(updateDifficulty(updateTimeElapsed(G, deltaTime)), deltaTime),
             deltaTime, choice)

\* start(): the loop is entered only if it is not running
start(G) ==
    [G EXCEPT !.state = GAME_STATES.PLAYING, !.score = NumZero, !.timeElapsed = 0,
              !.difficultyLevel = 0, !.isRunning = TRUE,
              !.scheduled = IF G.isRunning THEN @ ELSE @ + 1]

\* restart()
restart(G) ==
    start([G EXCEPT !.score = NumZero, !.timeElapsed = 0, !.difficultyLevel = 0,
                    !.player = PlayerReset(@),
                    !.obstacleManager = ObstacleManagerReset(@),
                    !.powerManager = reset(@)])

\* what handleKeyPress does when the key has no effect in the current state
NoCall(G) == [g |-> G, call |-> "none", ok |-> FALSE]

\* handleKeyPress(keyCode): the game after it, the method it called ("none"
\* if it called none) and, for a power, what the activation returned
handleKeyPress(G, keyCode) ==
    CASE keyCode = "Space" ->
           IF G.state = GAME_STATES.MENU
           THEN [g |-> start(G), call |-> "start", ok |-> TRUE] ELSE NoCall(G)
      [] keyCode = "KeyR" ->
           IF G.state = GAME_STATES.GAME_OVER
           THEN [g |-> restart(G), call |-> "restart", ok |-> TRUE] ELSE NoCall(G)
      [] keyCode = "KeyF" ->
           IF G.state = GAME_STATES.PLAYING
           THEN LET R == activateFreeze(G.powerManager)
                IN [g |-> [G EXCEPT !.powerManager = R.pm], call |-> "freeze", ok |-> R.ok]
           ELSE NoCall(G)
      [] keyCode = "KeyQ" ->
           IF G.state = GAME_STATES.PLAYING
           THEN LET R == activateSlow(G.powerManager)
                IN [g |-> [G EXCEPT !.powerManager = R.pm], call |-> "slow", ok |-> R.ok]
           ELSE NoCall(G)
      [] keyCode = "KeyE" ->
           IF G.state = GAME_STATES.PLAYING
           THEN LET R == activateSpeed(G.powerManager)
                IN [g |-> [G EXCEPT !.powerManager = R.pm], call |-> "speed", ok |-> R.ok]
           ELSE NoCall(G)
      [] OTHER -> NoCall(G)

\* variant: every keydown event is handled as a key press
handleKeyDown_NoLatch(G, code) ==
    handleKeyPress([G EXCEPT !.keyPressed[code] = TRUE], code)

\* handleKeyDown(event), code being event.code; this.keys is written here and
\* in handleKeyUp and read nowhere
handleKeyDown(G, code) ==
    IF ~G.keyPressed[code]
    THEN handleKeyPress([G EXCEPT !.keyPressed[code] = TRUE], code)
    ELSE NoCall(G)

\* handleKeyUp(event)
handleKeyUp(G, code) == [G EXCEPT !.keyPressed[code] = FALSE]

\* stop()
stop(G) == [G EXCEPT !.isRunning = FALSE]

\* gameLoop(currentTime), one of the scheduled callbacks being run: it
\* returns at once if the loop is stopped, and schedules itself again
\* otherwise
gameLoop(G, deltaTime, choice) ==
    IF ~G.isRunning THEN [g |-> [G EXCEPT !.scheduled = @ - 1], f |-> NoFrame]
    ELSE GameUpdate(G, deltaTime, choice)

(***************************************************************************)
(* History bookkeeping                                                     *)
(***************************************************************************)
\* op: the call; power: its argument; ok: the value returned; dt: the delta;
\* interrupted: the power a successful activation cut short; again: whether
\* the activated power had been activated before
NoOp == [op |-> "init", power |-> "none", ok |-> FALSE, dt |-> 0,
         interrupted |-> "none", again |-> FALSE]

Op(name, deltaTime) == [NoOp EXCEPT !.op = name, !.ok = TRUE, !.dt = deltaTime]

\* the power that is active in S and is not powerName, "none" if there is none
ActiveOther(S, powerName) ==
    IF \E n \in PowerSet : n # powerName /\ S.powers[n].active
    THEN CHOOSE n \in PowerSet : n # powerName /\ S.powers[n].active
    ELSE "none"

Min(a, b) == IF a < b THEN a ELSE b

SetPM(S) ==
    /\ powers' = S.powers
    /\ currentTimeState' = S.currentTimeState
    /\ timeMultiplier' = S.timeMultiplier

SetGame(G) ==
    /\ state' = G.state
    /\ score' = G.score
    /\ timeElapsed' = G.timeElapsed
    /\ difficultyLevel' = G.difficultyLevel
    /\ isRunning' = G.isRunning
    /\ keyPressed' = G.keyPressed
    /\ scheduled' = G.scheduled
    /\ player' = G.player
    /\ obstacleManager' = G.obstacleManager
    /\ SetPM(G.powerManager)

\* R is the result of activateFreeze / activateSlow / activateSpeed on PM
HistActivate(R, powerName) ==
    /\ lastOp' = [op |-> "activate", power |-> powerName, ok |-> R.ok, dt |-> 0,
                  interrupted |-> IF R.ok THEN ActiveOther(PM, powerName) ELSE "none",
                  again |-> R.ok /\ since[powerName] # -1]
    /\ since' = IF R.ok THEN [since EXCEPT ![powerName] = 0] ELSE since
    /\ lastActivated' = IF R.ok THEN powerName ELSE lastActivated

HistUpdate(opName, deltaTime) ==
    /\ lastOp' = Op(opName, deltaTime)
    /\ since' = [n \in PowerSet |->
                    IF since[n] = -1 THEN -1 ELSE Min(since[n] + deltaTime, maxCooldown[n])]
    /\ UNCHANGED lastActivated

HistDeactivate(powerName) ==
    /\ lastOp' = [Op("deactivate", 0) EXCEPT !.power = powerName]
    /\ lastActivated' = IF lastActivated = powerName THEN "none" ELSE lastActivated
    /\ UNCHANGED since

HistReset(opName) ==
    /\ lastOp' = Op(opName, 0)
    /\ since' = [n \in PowerSet |-> -1]
    /\ lastActivated' = "none"

\* clock: the sum of the deltas of the updates of the current run;
\* passed: the sum of the counts checkObstaclesPassed returned in it
NoRun == [clock |-> 0, passed |-> 0]

HistInit ==
    /\ lastOp = NoOp
    /\ since = [n \in PowerSet |-> -1]
    /\ lastActivated = "none"
    /\ frame = NoFrame
    /\ frames = 0
    /\ presses = 0
    /\ run = NoRun

(***************************************************************************)
(* The state after construction                                            *)
(***************************************************************************)
GameInit ==
    /\ state = GameNew.state
    /\ score = GameNew.score
    /\ timeElapsed = GameNew.timeElapsed
    /\ difficultyLevel = GameNew.difficultyLevel
    /\ isRunning = GameNew.isRunning
    /\ keyPressed = GameNew.keyPressed
    /\ scheduled = GameNew.scheduled
    /\ player = GameNew.player
    /\ obstacleManager = GameNew.obstacleManager
    /\ powers = GameNew.powerManager.powers
    /\ currentTimeState = GameNew.powerManager.currentTimeState
    /\ timeMultiplier = GameNew.powerManager.timeMultiplier

(***************************************************************************)
(* PowerManager driven directly: any interleaving of its public methods    *)
(***************************************************************************)
PMInit == GameInit /\ HistInit

PMActivateFreeze ==
    LET R == activateFreeze(PM)
    IN SetPM(R.pm) /\ HistActivate(R, "freeze") /\ UNCHANGED gameVars

PMActivateSlow ==
    LET R == activateSlow(PM)
    IN SetPM(R.pm) /\ HistActivate(R, "slow") /\ UNCHANGED gameVars

PMActivateSpeed ==
    LET R == activateSpeed(PM)
    IN SetPM(R.pm) /\ HistActivate(R, "speed") /\ UNCHANGED gameVars

PMUpdate ==
    \E deltaTime \in PMDeltas :
        SetPM(update(PM, deltaTime)) /\ HistUpdate("update", deltaTime)
            /\ UNCHANGED gameVars

PMDeactivatePower ==
    \E n \in PowerSet :
        SetPM(deactivatePower(PM, n)) /\ HistDeactivate(n) /\ UNCHANGED gameVars

PMReset == SetPM(reset(PM)) /\ HistReset("reset") /\ UNCHANGED gameVars

PMNext ==
    \/ PMActivateFreeze
    \/ PMActivateSlow
    \/ PMActivateSpeed
    \/ PMUpdate
    \/ PMDeactivatePower
    \/ PMReset

SpecPM == PMInit /\ [][PMNext]_vars

(***************************************************************************)
(* PowerManager while play goes on: the game loop keeps calling update     *)
(* with a positive delta, whatever else is called in between.  PMTick is   *)
(* enabled in every state, so that weak fairness of it, WF_vars(PMTick),   *)
(* says that PMTick steps never cease: []<><<PMTick>>_vars.                *)
(***************************************************************************)
PMTick ==
    \E deltaTime \in LiveDeltas :
        SetPM(update(PM, deltaTime)) /\ HistUpdate("update", deltaTime)
            /\ UNCHANGED gameVars

PMLiveNext ==
    \/ PMActivateFreeze
    \/ PMActivateSlow
    \/ PMActivateSpeed
    \/ PMTick
    \/ PMDeactivatePower
    \/ PMReset

SpecPMLive == PMInit /\ [][PMLiveNext]_vars /\ []<><<PMTick>>_vars

(***************************************************************************)
(* ObstacleManager driven directly: any interleaving of spawnObstacle,     *)
(* updateObstacles, removeOffscreenObstacles, checkCollisions and reset,   *)
(* against the player as constructed                                       *)
(***************************************************************************)
OMInit == GameInit /\ HistInit

OMUnchanged ==
    UNCHANGED <<state, score, timeElapsed, difficultyLevel, isRunning, keyPressed,
                scheduled, player,
                presses, run, pmVars, since, lastActivated>>

OMSpawnObstacle ==
    /\ obstacleManager.totalSpawned < MaxOMSpawned
    /\ \E choice \in SpawnChoices :
          obstacleManager' = spawnObstacle(obstacleManager, choice)
    /\ lastOp' = Op("spawnObstacle", 0)
    /\ frame' = NoFrame
    /\ UNCHANGED frames
    /\ OMUnchanged

OMUpdateObstacles ==
    /\ frames < MaxOMSteps
    /\ \E deltaTime \in OMDeltas : \E speedMultiplier \in OMMultipliers :
          /\ obstacleManager' = updateObstacles(obstacleManager, deltaTime, speedMultiplier)
          /\ lastOp' = Op("updateObstacles", deltaTime)
          /\ frame' = [NoFrame EXCEPT !.timeMultiplier = speedMultiplier]
    /\ frames' = frames + 1
    /\ OMUnchanged

OMRemoveOffscreenObstacles ==
    /\ obstacleManager' = removeOffscreenObstacles(obstacleManager)
    /\ lastOp' = Op("removeOffscreenObstacles", 0)
    /\ frame' = NoFrame
    /\ UNCHANGED frames
    /\ OMUnchanged

OMCheckCollisions ==
    /\ LET collidedObstacle == checkCollisions(obstacleManager, player)
       IN frame' = [NoFrame EXCEPT !.hit = collidedObstacle,
                                   !.collided = collidedObstacle # 0]
    /\ lastOp' = Op("checkCollisions", 0)
    /\ UNCHANGED <<obstacleManager, frames>>
    /\ OMUnchanged

OMReset ==
    /\ obstacleManager' = ObstacleManagerReset(obstacleManager)
    /\ lastOp' = Op("reset", 0)
    /\ frame' = NoFrame
    /\ UNCHANGED frames
    /\ OMUnchanged

OMNext ==
    \/ OMSpawnObstacle
    \/ OMUpdateObstacles
    \/ OMRemoveOffscreenObstacles
    \/ OMCheckCollisions
    \/ OMReset

SpecOM == OMInit /\ [][OMNext]_vars

(***************************************************************************)
(* The game: key presses and animation frames                              *)
(***************************************************************************)
Init == GameInit /\ HistInit

\* variant: Space starts a run from any state
KeySpace_Anywhere ==
    /\ SetGame(start(GameObj))
    /\ lastOp' = [Op("space", 0) EXCEPT !.ok = (state = GAME_STATES.MENU)]
    /\ run' = NoRun
    /\ UNCHANGED <<since, lastActivated, frame, frames, presses>>

\* handleKeyPress('Space')
KeySpace ==
    /\ IF state = GAME_STATES.MENU THEN SetGame(start(GameObj))
       ELSE UNCHANGED <<state, score, timeElapsed, difficultyLevel, isRunning,
                        keyPressed, scheduled, player, obstacleManager, pmVars>>
    /\ lastOp' = [Op("space", 0) EXCEPT !.ok = (state = GAME_STATES.MENU)]
    /\ run' = IF state = GAME_STATES.MENU THEN NoRun ELSE run
    /\ UNCHANGED <<since, lastActivated, frame, frames, presses>>

\* handleKeyPress('KeyR')
KeyR ==
    /\ IF state = GAME_STATES.GAME_OVER
       THEN SetGame(restart(GameObj)) /\ HistReset("restart")
       ELSE /\ UNCHANGED <<state, score, timeElapsed, difficultyLevel, isRunning,
                           keyPressed, scheduled, player, obstacleManager, pmVars,
                           since, lastActivated>>
            /\ lastOp' = [Op("restart", 0) EXCEPT !.ok = FALSE]
    /\ frames' = IF state = GAME_STATES.GAME_OVER THEN 0 ELSE frames
    /\ presses' = IF state = GAME_STATES.GAME_OVER THEN 0 ELSE presses
    /\ run' = IF state = GAME_STATES.GAME_OVER THEN NoRun ELSE run
    /\ UNCHANGED frame

\* handleKeyPress of a power key: R is the result of the activate call, in a
\* run followed for at most limit such presses
KeyPowerOf(R, powerName, limit) ==
    /\ presses < limit
    /\ IF state = GAME_STATES.PLAYING
       THEN SetPM(R.pm) /\ HistActivate(R, powerName) /\ presses' = presses + 1
       ELSE /\ UNCHANGED <<pmVars, since, lastActivated, presses>>
            /\ lastOp' = [Op("ignored", 0) EXCEPT !.power = powerName, !.ok = FALSE]
    /\ UNCHANGED <<state, score, timeElapsed, difficultyLevel, isRunning, keyPressed,
                   scheduled, player, obstacleManager, frame, frames, run>>

KeyPower(R, powerName) == KeyPowerOf(R, powerName, MaxPresses)

\* handleKeyPress('KeyF')
KeyF == KeyPower(activateFreeze(PM), "freeze")

\* handleKeyPress('KeyQ')
KeyQ == KeyPower(activateSlow(PM), "slow")

\* handleKeyPress('KeyE')
KeyE == KeyPower(activateSpeed(PM), "speed")

\* gameLoop(currentTime): one animation frame, its delta drawn from Deltas,
\* in a run followed for at most limit frames
FrameOf(Deltas, limit) ==
    /\ scheduled > 0
    /\ \E deltaTime \in Deltas : \E choice \in SpawnChoices :
          /\ frames < limit
          /\ LET U == gameLoop(GameObj, deltaTime, choice)
             IN /\ SetGame(U.g)
                /\ frame' = U.f
                /\ frames' = IF U.f.ran THEN frames + 1 ELSE frames
                /\ run' = IF U.f.ran
                          THEN [clock |-> run.clock + deltaTime,
                                passed |-> run.passed + U.f.obstaclesPassed]
                          ELSE run
                /\ UNCHANGED presses
                /\ IF U.f.ran
                   THEN HistUpdate("frame", deltaTime)
                   ELSE /\ lastOp' = [Op("frame", deltaTime) EXCEPT !.ok = FALSE]
                        /\ UNCHANGED <<since, lastActivated>>

Frame == FrameOf(FrameDeltas, MaxFrames)

Next ==
    \/ KeySpace
    \/ KeyR
    \/ KeyF
    \/ KeyQ
    \/ KeyE
    \/ Frame

Spec == Init /\ [][Next]_vars

(***************************************************************************)
(* The loop driven through the public methods: any interleaving of         *)
(* start(), restart(), stop() and the scheduled gameLoop callbacks, with   *)
(* at most MaxScheduled callbacks followed at a time                       *)
(***************************************************************************)
LoopStart ==
    /\ isRunning \/ scheduled < MaxScheduled
    /\ SetGame(start(GameObj))
    /\ lastOp' = Op("start", 0)
    /\ run' = NoRun
    /\ UNCHANGED <<since, lastActivated, frame, frames, presses>>

LoopRestart ==
    /\ isRunning \/ scheduled < MaxScheduled
    /\ SetGame(restart(GameObj))
    /\ HistReset("restart")
    /\ frames' = 0
    /\ presses' = 0
    /\ run' = NoRun
    /\ UNCHANGED frame

LoopStop ==
    /\ SetGame(stop(GameObj))
    /\ lastOp' = Op("stop", 0)
    /\ UNCHANGED <<since, lastActivated, frame, frames, presses, run>>

LoopFrame == FrameOf(LoopDeltas, MaxLoopFrames)

LoopNext ==
    \/ LoopStart
    \/ LoopRestart
    \/ LoopStop
    \/ LoopFrame

SpecLoop == Init /\ [][LoopNext]_vars

(***************************************************************************)
(* The game over long stretches of play: every frame spans one or three    *)
(* difficulty intervals                                                    *)
(***************************************************************************)
RampFrame == FrameOf(RampDeltas, MaxRampFrames)

RampNext ==
    \/ KeySpace
    \/ KeyR
    \/ KeyF
    \/ KeyQ
    \/ KeyE
    \/ RampFrame

SpecRamp == Init /\ [][RampNext]_vars

(***************************************************************************)
(* The game with the keyboard's events: a keydown event for any key,       *)
(* whether it is held or not (a held key repeats its keydown), a keyup     *)
(* event for a held key, and animation frames                              *)
(***************************************************************************)
KeysDown ==
    \E code \in KeyCodes :
        LET R == handleKeyDown(GameObj, code)
        IN /\ R.call \in PowerSet => presses < MaxKeysPresses
           /\ SetGame(R.g)
           /\ lastOp' = [NoOp EXCEPT !.op = "keydown", !.power = code,
                                     !.ok = (R.call # "none")]
           /\ since' = CASE R.call = "restart" -> [n \in PowerSet |-> -1]
                         [] R.call \in PowerSet /\ R.ok -> [since EXCEPT ![R.call] = 0]
                         [] OTHER -> since
           /\ lastActivated' = CASE R.call = "restart" -> "none"
                                 [] R.call \in PowerSet /\ R.ok -> R.call
                                 [] OTHER -> lastActivated
           /\ frames' = IF R.call = "restart" THEN 0 ELSE frames
           /\ presses' = CASE R.call = "restart" -> 0
                           [] R.call \in PowerSet -> presses + 1
                           [] OTHER -> presses
           /\ run' = IF R.call \in {"start", "restart"} THEN NoRun ELSE run
           /\ UNCHANGED frame

KeysUp ==
    \E code \in KeyCodes :
        /\ keyPressed[code]
        /\ SetGame(handleKeyUp(GameObj, code))
        /\ lastOp' = [Op("keyup", 0) EXCEPT !.power = code]
        /\ UNCHANGED <<since, lastActivated, frame, frames, presses, run>>

KeysFrame == FrameOf(KeysDeltas, MaxKeysFrames)

KeysNext ==
    \/ KeysDown
    \/ KeysUp
    \/ KeysFrame

SpecKeys == Init /\ [][KeysNext]_vars

(***************************************************************************)
(* The game across a difficulty interval: long frames carry the clock to   *)
(* the interval's end, short ones leave the obstacles on the field         *)
(***************************************************************************)
LevelFrame == FrameOf(LevelDeltas, MaxLevelFrames)

LevelNext ==
    \/ KeySpace
    \/ KeyR
    \/ KeyF
    \/ KeyQ
    \/ KeyE
    \/ LevelFrame

SpecLevel == Init /\ [][LevelNext]_vars

(***************************************************************************)
(* The game over short frames: the same stretch of time reached by         *)
(* different sequences of frames                                           *)
(***************************************************************************)
FineFrame == FrameOf(FineDeltas, MaxFineFrames)

FineNext ==
    \/ KeySpace
    \/ KeyR
    \/ KeyF
    \/ KeyQ
    \/ KeyE
    \/ FineFrame

SpecFine == Init /\ [][FineNext]_vars

(***************************************************************************)
(* The game with the first frame's timestamp taken before or after the     *)
(* time start() stored                                                     *)
(***************************************************************************)
SkewFrame ==
    FrameOf(IF lastOp.op = "space" /\ lastOp.ok THEN FirstDeltas ELSE FineDeltas,
            MaxSkewFrames)

SkewNext ==
    \/ KeySpace
    \/ KeyR
    \/ KeyF
    \/ KeyQ
    \/ KeyE
    \/ SkewFrame

SpecSkew == Init /\ [][SkewNext]_vars

(***************************************************************************)
(* The game around a Freeze: frames that split the 2000 ms of the power    *)
(* evenly or not, and room for a second power key                          *)
(***************************************************************************)
FreezeFrame == FrameOf(FreezeDeltas, MaxFreezeFrames)

FreezeKeyF == KeyPowerOf(activateFreeze(PM), "freeze", MaxFreezePresses)

FreezeKeyQ == KeyPowerOf(activateSlow(PM), "slow", MaxFreezePresses)

FreezeKeyE == KeyPowerOf(activateSpeed(PM), "speed", MaxFreezePresses)

FreezeNext ==
    \/ KeySpace
    \/ KeyR
    \/ FreezeKeyF
    \/ FreezeKeyQ
    \/ FreezeKeyE
    \/ FreezeFrame

SpecFreeze == Init /\ [][FreezeNext]_vars

(***************************************************************************)
(* Properties of the PowerManager, checked under SpecPM                    *)
(***************************************************************************)
ActivePowers == {n \in PowerSet : powers[n].active}

JustActivated(n) == lastOp.op = "activate" /\ lastOp.power = n /\ lastOp.ok

\* C1: in every reachable state at most one of freeze, slow and speed is
\* active, whatever the interleaving of activations, updates and resets.
C1_AtMostOneActive == Cardinality(ActivePowers) <= 1

\* a power is active right after it took over from another one
C1_Witness ==
    /\ lastOp.op = "activate" /\ lastOp.ok /\ lastOp.interrupted # "none"
    /\ ActivePowers = {lastOp.power}

\* C2: a successful activation of a while another power b is active leaves b
\* inactive with duration 0 and its cooldown untouched, leaves the third power
\* as it was, and gives a its full duration and cooldown.
C2_SwitchFrame ==
    [][\A a \in PowerSet : \A b \in PowerSet \ {a} :
          (lastOp'.op = "activate" /\ lastOp'.power = a /\ lastOp'.ok /\ powers[b].active)
          => /\ ~powers'[b].active
             /\ powers'[b].duration = 0
             /\ powers'[b].cooldown = powers[b].cooldown
             /\ \A c \in PowerSet \ {a, b} : powers'[c] = powers[c]
             /\ powers'[a] = [active |-> TRUE, cooldown |-> maxCooldown[a],
                              duration |-> maxDuration[a]]]_vars

\* a switch happened while the interrupted power still had cooldown to run
C2_Witness ==
    /\ lastOp.op = "activate" /\ lastOp.ok /\ lastOp.interrupted # "none"
    /\ powers[lastOp.interrupted].cooldown > 0
    /\ powers[lastOp.interrupted].cooldown < maxCooldown[lastOp.interrupted]

\* C3: a request for a power that is active or cooling down returns false and
\* changes nothing in the PowerManager; a different active power stays active.
C3_FailedActivationNoEffect ==
    [][\A a \in PowerSet :
          (lastOp'.op = "activate" /\ lastOp'.power = a
             /\ (powers[a].active \/ powers[a].cooldown > 0))
          => (~lastOp'.ok /\ UNCHANGED pmVars)]_vars

\* a request was refused while a different power was active
C3_Witness ==
    /\ lastOp.op = "activate" /\ ~lastOp.ok
    /\ \E b \in PowerSet \ {lastOp.power} : powers[b].active
    /\ powers[lastOp.power].cooldown > 0

\* C4: remaining durations and cooldowns are never negative.
C4_TimersNonNegative ==
    \A n \in PowerSet : powers[n].duration >= 0 /\ powers[n].cooldown >= 0

\* an update overshot the remaining duration of the running power
C4_Witness ==
    \E n \in PowerSet :
        /\ lastOp.op = "update" /\ lastActivated = n
        /\ since[n] < maxCooldown[n]
        /\ since[n] > maxDuration[n]
        /\ since[n] - lastOp.dt < maxDuration[n]
        /\ powers[n].duration = 0

\* the precedence table: frozen > slow > fast > normal
Precedence(A) ==
    IF "freeze" \in A THEN <<"frozen", 0>>
    ELSE IF "slow" \in A THEN <<"slow", 5>>
    ELSE IF "speed" \in A THEN <<"fast", 20>>
    ELSE <<"normal", 10>>

\* C5: after every operation (currentTimeState, timeMultiplier) is the
\* precedence function of the three active flags.
C5_TimeStateMatchesFlags ==
    <<currentTimeState, timeMultiplier>> = Precedence(ActivePowers)

\* an update let the running power expire and the state fell back to normal
C5_Witness ==
    /\ lastOp.op = "update" /\ lastActivated # "none"
    /\ since[lastActivated] >= maxDuration[lastActivated]
    /\ currentTimeState = "normal" /\ timeMultiplier = 10

C7_ReactivationAfterCooldown ==
    [][\A n \in PowerSet :
          (lastOp'.op = "activate" /\ lastOp'.power = n /\ lastOp'.ok)
          => /\ since[n] = -1 \/ since[n] >= maxCooldown[n]
             /\ ~powers[n].active
             /\ powers[n].cooldown = 0]_vars

\* a power was activated for the second time
C7_Witness == lastOp.op = "activate" /\ lastOp.ok /\ lastOp.again

\* C8: a power is active if and only if its remaining duration is positive.
C8_ActiveIffDuration ==
    \A n \in PowerSet : powers[n].active <=> powers[n].duration > 0

\* one power runs, another one was cut short and a third expired or never ran
C8_Witness ==
    /\ \E n \in PowerSet : powers[n].active /\ powers[n].duration < maxDuration[n]
    /\ \E n \in PowerSet : ~powers[n].active /\ powers[n].cooldown > 0
                              /\ since[n] < maxDuration[n]

(***************************************************************************)
(* Properties of the game loop, checked under Spec                         *)
(***************************************************************************)
\* the last step was an animation frame whose update ran
FrameRan == lastOp.op = "frame" /\ lastOp.ok /\ frame.ran

\* C9: the multiplier that advanced the hazards on a tick, and the time state
\* that decided that tick's score factor, are the ones the same tick's
\* PowerManager.update recomputed.
C9_FrameUsesRecomputedTimeState ==
    FrameRan => /\ frame.timeMultiplier = timeMultiplier
                /\ frame.timeState = currentTimeState

\* C10: the difficulty level is floor(timeElapsed / 20000) after every tick
\* and never decreases within a run.
C10_LevelIsFloorOfElapsed ==
    /\ [](/\ difficultyLevel * DIFFICULTY_INTERVAL <= timeElapsed
          /\ timeElapsed < (difficultyLevel + 1) * DIFFICULTY_INTERVAL)
    /\ [][lastOp'.op = "frame" => difficultyLevel' >= difficultyLevel]_vars

\* a run is in its third level, part-way through the interval
C10_Witness ==
    /\ state = GAME_STATES.PLAYING /\ FrameRan
    /\ difficultyLevel = 2
    /\ timeElapsed > 2 * DIFFICULTY_INTERVAL

\* C11: difficulty escalation is independent of power usage: while a run is
\* being played, timeElapsed is the sum of the deltas of its ticks and the
\* level is the number of whole intervals of 20000 ms in that sum, so both
\* are a function of the tick deltas alone and two runs fed the same deltas
\* agree on them whatever powers were requested in either.
C11_ElapsedIndependentOfPowers ==
    state = GAME_STATES.PLAYING
    => /\ timeElapsed = run.clock
       /\ difficultyLevel = IF run.clock < DIFFICULTY_INTERVAL THEN 0
                            ELSE Floor(run.clock, DIFFICULTY_INTERVAL)

\* a tick that ran under a power took the run into a higher level
C11_Witness ==
    /\ state = GAME_STATES.PLAYING /\ FrameRan
    /\ frame.timeState # TIME_STATES.NORMAL
    /\ lastOp.dt > 0
    /\ run.clock >= DIFFICULTY_INTERVAL
    /\ difficultyLevel >= 1

(***************************************************************************)
(* Properties of spawning                                                  *)
(***************************************************************************)
\* the spawn interval the claim gives for level L
SpawnIntervalAt(L) == IF 1500 - 150 * L > 500 THEN 1500 - 150 * L ELSE 500

\* C12: the spawn interval the obstacle manager uses is max(500, 1500 - 150*L)
\* for the level L of the game: 1500 at level 0, 1350 at level 1, which an
\* idle run reaches after exactly 20000 ms, never below 500, and it does not
\* grow within a run.
C12_SpawnIntervalByLevel ==
    /\ [](/\ obstacleManager.spawnRate = SpawnIntervalAt(obstacleManager.difficultyLevel)
          /\ obstacleManager.spawnRate >= 500
          /\ FrameRan => obstacleManager.difficultyLevel = difficultyLevel
          /\ difficultyLevel = 0 => obstacleManager.spawnRate = 1500
          /\ (FrameRan /\ run.clock = 20000)
                => (difficultyLevel = 1 /\ obstacleManager.spawnRate = 1350))
    /\ [][lastOp'.op = "frame"
            => obstacleManager'.spawnRate <= obstacleManager.spawnRate]_vars

\* a run reached a level at which the interval is held at the minimum gap
C12_Witness ==
    /\ state = GAME_STATES.PLAYING /\ FrameRan
    /\ difficultyLevel >= 7
    /\ obstacleManager.spawnRate = 500

\* C13: on each tick a hazard is spawned if and only if timeElapsed minus
\* lastSpawnTime has reached the spawn interval of that tick; a spawn creates
\* exactly one hazard however large the delta and sets lastSpawnTime to the
\* current timeElapsed, so it comes at least the interval in force, hence at
\* least 500 ms, after the previous spawn or the start of the run.
C13_SpawnWhenIntervalElapsed ==
    [][(lastOp'.op = "frame" /\ lastOp'.ok)
       => LET due == timeElapsed' - obstacleManager.lastSpawnTime
                         >= obstacleManager'.spawnRate
          IN /\ frame'.spawned <=> due
             /\ due => /\ obstacleManager'.totalSpawned = obstacleManager.totalSpawned + 1
                       /\ Len(obstacleManager'.obstacles) <= Len(obstacleManager.obstacles) + 1
                       /\ obstacleManager'.lastSpawnTime = timeElapsed'
                       /\ timeElapsed' - obstacleManager.lastSpawnTime >= 500
             /\ ~due => /\ obstacleManager'.totalSpawned = obstacleManager.totalSpawned
                        /\ obstacleManager'.lastSpawnTime = obstacleManager.lastSpawnTime]_vars

\* the second hazard of a run was spawned, alone, by a tick thirteen intervals long
C13_Witness ==
    /\ FrameRan /\ frame.spawned
    /\ lastOp.dt = 20000
    /\ obstacleManager.totalSpawned = 2
    /\ obstacleManager.lastSpawnTime = timeElapsed

\* the speed the claim gives to a hazard spawned at level L: 200 * (1 + 0.2 * L)
SpeedAt(L) == (200 * (10 + 2 * L)) \div 10

Hazards == {obstacleManager.obstacles[i] : i \in 1..Len(obstacleManager.obstacles)}

\* C16: hasBeenPassed goes from false to true at most once and never back: a
\* hazard is flagged exactly when pass detection has counted it, and no
\* hazard, on the field or removed from it, has been counted more than once.
C16_PassedFlagSetOnce ==
    /\ \A o \in Hazards : /\ o.counted <= 1
                          /\ o.hasBeenPassed <=> o.counted = 1
    /\ \A c \in frame.removedCounts : c <= 1

\* a tick met a hazard that was already flagged and counted nothing
C16_Witness ==
    /\ FrameRan /\ state = GAME_STATES.PLAYING
    /\ frame.obstaclesPassed = 0
    /\ \E o \in Hazards : o.hasBeenPassed /\ o.x + ObstacleWidth(o.type) < player.x

\* C17: every hazard removed at the despawn boundary has by then been counted
\* exactly once by pass detection.
C17_RemovedCountedOnce ==
    FrameRan => \A c \in frame.removedCounts : c = 1

(***************************************************************************)
(* Properties of the score                                                 *)
(***************************************************************************)
\* a run in which no power was activated and no hazard was passed
IdleRun ==
    /\ state = GAME_STATES.PLAYING
    /\ run.passed = 0
    /\ \A n \in PowerSet : since[n] = -1

\* C18: in a run without powers and without passes the score after T ms of
\* frames is T / 1000 (the number one frame of T ms gives), however the T ms
\* are split into frames.
C18_IdleScoreIsElapsedSeconds ==
    IdleRun => score = NumQuot(run.clock, 1000)

\* C19: a frame of delta ms that begins in the normal, frozen or slow state
\* adds delta / 1000 to the score and n passed hazards add 5 * n; a frame that
\* begins in the fast state adds 2 * delta / 1000 and 10 * n.
C19_ScoreGainByState ==
    [][(lastOp'.op = "frame" /\ frame'.ran)
       => LET fast == currentTimeState = TIME_STATES.FAST
              n == frame'.obstaclesPassed
              timed == NumPlus(score, NumQuot((IF fast THEN 2 ELSE 1) * lastOp'.dt, 1000))
          IN score' = IF n > 0
                      THEN NumPlus(timed, NumOfInt((IF fast THEN 10 ELSE 5) * n))
                      ELSE timed]_vars

\* a frame on which one hazard was passed while the speed power was active,
\* before the frame and after it
C19_Witness ==
    /\ FrameRan
    /\ state = GAME_STATES.PLAYING
    /\ frame.timeState = TIME_STATES.FAST
    /\ currentTimeState = TIME_STATES.FAST
    /\ frame.obstaclesPassed = 1
    /\ lastOp.dt > 0

\* C20: the score is never negative, no step other than a start or a restart
\* lowers it, and a start or a restart sets it to 0.
C20_ScoreNeverDecreases ==
    /\ [](NumLeq(NumZero, score))
    /\ [][IF lastOp'.op \in {"space", "restart"} /\ lastOp'.ok
          THEN score' = NumZero
          ELSE NumLeq(score, score')]_vars

(***************************************************************************)
(* Properties of malformed frame deltas                                    *)
(***************************************************************************)
\* C21: a frame with a negative delta is treated as one with delta 0: it does
\* not lower timeElapsed or the score, raises no power's remaining duration
\* or cooldown, and moves no hazard backwards (to a larger x).
C21_NegativeDeltaIsClamped ==
    [][(lastOp'.op = "frame" /\ lastOp'.dt < 0)
       => /\ timeElapsed' >= timeElapsed
          /\ NumLeq(score, score')
          /\ \A n \in PowerSet : /\ powers'[n].duration <= powers[n].duration
                                 /\ powers'[n].cooldown <= powers[n].cooldown
          /\ \A i \in 1..Len(obstacleManager.obstacles) :
                 i <= Len(obstacleManager'.obstacles)
                 => obstacleManager'.obstacles[i].x <= obstacleManager.obstacles[i].x]_vars

(***************************************************************************)
(* Properties of collisions and of the game state                          *)
(***************************************************************************)
\* a hazard that lies behind the player and has not been counted
PassedUncounted(o) ==
    ~o.hasBeenPassed /\ o.x + ObstacleWidth(o.type) < player.x

\* C22: a frame on which a collision is detected ends in the game-over state,
\* adds nothing to the score beyond the frame's time score, counts no hazard
\* as passed, and every later frame leaves the game as it is until a restart.
C22_CollisionEndsRun ==
    /\ [](FrameRan => (frame.collided <=> state = GAME_STATES.GAME_OVER))
    /\ [][(lastOp'.op = "frame" /\ frame'.ran /\ frame'.collided)
          => /\ state' = GAME_STATES.GAME_OVER
             /\ score' = NumPlus(score, NumQuot((IF currentTimeState = TIME_STATES.FAST
                                                  THEN 2 ELSE 1) * lastOp'.dt, 1000))
             /\ run'.passed = run.passed
             /\ \A i \in 1..Len(obstacleManager'.obstacles) :
                    obstacleManager'.obstacles[i].counted = 1
                    => \E j \in 1..Len(obstacleManager.obstacles) :
                          /\ obstacleManager.obstacles[j].counted = 1
                          /\ obstacleManager.obstacles[j].type
                                 = obstacleManager'.obstacles[i].type
                          /\ obstacleManager.obstacles[j].y
                                 = obstacleManager'.obstacles[i].y]_vars
    /\ [][(state = GAME_STATES.GAME_OVER /\ lastOp'.op = "frame")
          => UNCHANGED <<state, score, timeElapsed, difficultyLevel, player,
                         obstacleManager, pmVars>>]_vars

\* the game is over and a hazard that went behind the player on the frame of
\* the collision is left uncounted
C22_Witness ==
    /\ FrameRan
    /\ frame.collided
    /\ state = GAME_STATES.GAME_OVER
    /\ \E o \in Hazards : PassedUncounted(o)

\* two boxes share a region of positive area
Overlaps(a, b) ==
    /\ Max(a.x, b.x) < Min(a.x + a.width, b.x + b.width)
    /\ Max(a.y, b.y) < Min(a.y + a.height, b.y + b.height)

\* the hazards whose box overlaps the player's, at their current positions
Overlapping ==
    {i \in 1..Len(obstacleManager.obstacles) :
        Overlaps(ObstacleBounds(obstacleManager.obstacles[i]), PlayerBounds(player))}

\* C23: a frame ends the run if and only if, at the positions the frame's
\* own advance of the hazards and the player produced, some hazard's box
\* overlaps the player's box.
C23_CollisionOnPostAdvancePositions ==
    FrameRan => (state = GAME_STATES.GAME_OVER <=> Overlapping # {})

\* a frame of positive length moved a hazard onto the player and ended the run
C23_Witness ==
    /\ FrameRan
    /\ lastOp.dt > 0
    /\ state = GAME_STATES.GAME_OVER
    /\ \E i \in Overlapping : obstacleManager.obstacles[i].x < CANVAS_WIDTH

(* Properties of the ObstacleManager's collision test *)
\* the rectangles share boundary points and no interior point
Touches(a, b) ==
    /\ ~Overlaps(a, b)
    /\ Max(a.x, b.x) <= Min(a.x + a.width, b.x + b.width)
    /\ Max(a.y, b.y) <= Min(a.y + a.height, b.y + b.height)

Touching ==
    {i \in 1..Len(obstacleManager.obstacles) :
        Touches(ObstacleBounds(obstacleManager.obstacles[i]), PlayerBounds(player))}

Checked == lastOp.op = "checkCollisions"

\* C24: checkCollisions returns null when no stored obstacle's rectangle
\* overlaps the player's rectangle with positive area (a shared edge is not an
\* overlap), and otherwise the overlapping obstacle stored first; storage
\* order is the order of spawning, also after off-screen obstacles were
\* removed.
C24_FirstOverlappingInSpawnOrder ==
    /\ \A i, j \in 1..Len(obstacleManager.obstacles) :
           i < j => obstacleManager.obstacles[i].serial
                        < obstacleManager.obstacles[j].serial
    /\ Checked =>
           IF Overlapping = {} THEN frame.hit = 0
           ELSE /\ frame.hit \in Overlapping
                /\ \A i \in Overlapping :
                       obstacleManager.obstacles[frame.hit].serial
                           <= obstacleManager.obstacles[i].serial

\* the obstacle spawned first only touches the player and the one spawned
\* second is returned
C24_Witness == Checked /\ frame.hit = 2 /\ 1 \in Touching

(* Properties of restart and of the game-state machine *)
Restarted == lastOp.op = "restart" /\ lastOp.ok

\* C25: right after restart() the score, timeElapsed and the level are 0, no
\* obstacle is stored, lastSpawnTime and the spawned and destroyed counters
\* are 0, every power is inactive with duration 0 and cooldown 0 and can be
\* activated, the time state is NORMAL with multiplier 1.0 and the game is
\* playing: every component is as its constructor leaves it.
C25_RestartIsFullReset ==
    Restarted =>
        /\ score = NumZero /\ timeElapsed = 0 /\ difficultyLevel = 0
        /\ obstacleManager.obstacles = <<>>
        /\ obstacleManager.lastSpawnTime = 0
        /\ obstacleManager.totalSpawned = 0
        /\ obstacleManager.totalDestroyed = 0
        /\ \A n \in PowerSet :
               /\ powers[n] = [active |-> FALSE, cooldown |-> 0, duration |-> 0]
               /\ canActivatePower(PM, n)
        /\ currentTimeState = TIME_STATES.NORMAL
        /\ timeMultiplier = 10
        /\ state = GAME_STATES.PLAYING
        /\ obstacleManager = ObstacleManagerNew
        /\ PM = PowerManagerNew
        /\ player = PlayerNew

\* a restart of a run that ended with a power in force on its last tick
C25_Witness ==
    Restarted /\ frame.collided /\ frame.timeState # TIME_STATES.NORMAL

GameFields ==
    <<state, score, timeElapsed, difficultyLevel, isRunning, player,
      obstacleManager, pmVars>>

\* C26: the state changes only from MENU to PLAYING on Space, from PLAYING to
\* GAME_OVER on a tick that detected a collision, and from GAME_OVER to
\* PLAYING on R, and each of these events does change it; Space outside MENU
\* and R outside GAME_OVER change nothing; MENU is never entered again.
C26_StateMachine ==
    /\ [][state' # state =>
             \/ /\ state = GAME_STATES.MENU /\ state' = GAME_STATES.PLAYING
                /\ lastOp'.op = "space"
             \/ /\ state = GAME_STATES.PLAYING /\ state' = GAME_STATES.GAME_OVER
                /\ lastOp'.op = "frame" /\ frame'.collided
             \/ /\ state = GAME_STATES.GAME_OVER /\ state' = GAME_STATES.PLAYING
                /\ lastOp'.op = "restart"]_vars
    /\ [][/\ (lastOp'.op = "space" /\ state = GAME_STATES.MENU)
               => state' = GAME_STATES.PLAYING
          /\ (lastOp'.op = "restart" /\ state = GAME_STATES.GAME_OVER)
               => state' = GAME_STATES.PLAYING
          /\ (lastOp'.op = "frame" /\ frame'.ran /\ frame'.collided)
               => state = GAME_STATES.PLAYING /\ state' = GAME_STATES.GAME_OVER]_vars
    /\ [][/\ (lastOp'.op = "space" /\ state # GAME_STATES.MENU)
               => UNCHANGED GameFields
          /\ (lastOp'.op = "restart" /\ state # GAME_STATES.GAME_OVER)
               => UNCHANGED GameFields]_vars
    /\ [][state' = GAME_STATES.MENU => state = GAME_STATES.MENU]_vars

\* Space is ignored in a run that R started after a collision
C26_Witness ==
    /\ lastOp.op = "space" /\ ~lastOp.ok
    /\ state = GAME_STATES.PLAYING /\ frame.collided /\ frames = 0

(* Properties of the displayed score *)
\* the integer part of a number, its fraction dropped
Truncated(a) == (IF a.neg THEN -1 ELSE 1) * (a.m[3] \div Pow2(14))

\* what the last update wrote: the HUD, or the game-over screen on a collision
ShownScore == IF frame.collided THEN frame.finalScoreText ELSE frame.scoreText

\* C27: the score written to the HUD, and to the game-over screen on a
\* collision, is floor(score), which is the score truncated toward zero and
\* is never above the score.
C27_ShownScoreIsTruncatedScore ==
    FrameRan => /\ ShownScore = <<Truncated(score)>>
                /\ NumLeq(NumOfInt(ShownScore[1]), score)

(* Properties of the movement and of the removal of obstacles *)
\* C28: updateObstacles moves every obstacle to the left by
\* speed * multiplier * delta / 1000 and changes nothing else: by nothing when
\* the multiplier is 0, by half of speed * delta / 1000 when it is 0.5 and by
\* twice that when it is 2.0; for a delta >= 0 no position increases.
C28_AdvanceBySpeedTimesMultiplier ==
    [][lastOp'.op = "updateObstacles" =>
          /\ Len(obstacleManager'.obstacles) = Len(obstacleManager.obstacles)
          /\ \A i \in 1..Len(obstacleManager.obstacles) :
                LET o == obstacleManager.obstacles[i]
                    n == obstacleManager'.obstacles[i]
                    moved == o.x - n.x
                    mult == frame'.timeMultiplier
                    deltaTime == lastOp'.dt
                IN /\ n = [o EXCEPT !.x = n.x]
                   /\ moved * 10000 = o.speed * mult * deltaTime
                   /\ mult = 0 => moved = 0
                   /\ mult = 5 => 2 * moved * 1000 = o.speed * deltaTime
                   /\ mult = 10 => moved * 1000 = o.speed * deltaTime
                   /\ mult = 20 => moved * 1000 = 2 * o.speed * deltaTime
                   /\ deltaTime >= 0 => n.x <= o.x]_vars

\* a frozen advance over a positive delta of two obstacles at different places
C28_Witness ==
    /\ lastOp.op = "updateObstacles" /\ lastOp.dt > 0 /\ frame.timeMultiplier = 0
    /\ Len(obstacleManager.obstacles) = 2
    /\ obstacleManager.obstacles[1].x < obstacleManager.obstacles[2].x

\* the indices of the stored obstacles whose trailing edge is left of the border
PastBorder(M) ==
    {i \in 1..Len(M.obstacles) :
        M.obstacles[i].x + ObstacleWidth(M.obstacles[i].type) < 0}

\* C30: removeOffscreenObstacles removes exactly the obstacles with
\* x + width < 0, keeps the others unchanged and in their order, and adds the
\* number removed to totalDestroyed, touching nothing else; a second call
\* right after it removes nothing and changes no counter.
C30_RemovesExactlyOffscreen ==
    [][lastOp'.op = "removeOffscreenObstacles" =>
          LET old == obstacleManager.obstacles
              new == obstacleManager'.obstacles
              gone == PastBorder(obstacleManager)
          IN /\ Len(new) = Len(old) - Cardinality(gone)
             /\ \A i \in 1..Len(old) :
                    i \notin gone <=> \E k \in 1..Len(new) : new[k] = old[i]
             /\ \A k, l \in 1..Len(new) :
                    k < l => \E i, j \in 1..Len(old) :
                                i < j /\ old[i] = new[k] /\ old[j] = new[l]
             /\ obstacleManager' =
                    [obstacleManager EXCEPT
                        !.obstacles = new,
                        !.totalDestroyed = @ + Cardinality(gone)]
             /\ PastBorder(obstacleManager') = {}
             /\ lastOp.op = "removeOffscreenObstacles" => UNCHANGED obstacleManager]_vars

\* one obstacle was removed and one whose trailing edge is on the border stays
C30_Witness ==
    /\ lastOp.op = "removeOffscreenObstacles"
    /\ obstacleManager.totalDestroyed = 1
    /\ Len(obstacleManager.obstacles) = 1
    /\ obstacleManager.obstacles[1].x + ObstacleWidth(obstacleManager.obstacles[1].type) = 0

(* Properties of the Freeze window in the game *)
\* an update ran in this step
FrameStep == lastOp'.op = "frame" /\ frame'.ran

\* every obstacle stored before and after the step is where it was
NoObstacleMoved ==
    \A i \in 1..Len(obstacleManager.obstacles) :
        \A j \in 1..Len(obstacleManager'.obstacles) :
            obstacleManager.obstacles[i].serial = obstacleManager'.obstacles[j].serial
            => obstacleManager'.obstacles[j].x = obstacleManager.obstacles[i].x

\* fewer than 2000 ms of ticks were applied since Freeze was activated
InFreezeWindow == since["freeze"] >= 0 /\ since["freeze"] < FREEZE_DURATION

\* C29, interruptions included: on every tick that begins less than 2000 ms of ticks after
\* a successful activation of Freeze, no obstacle's position changes.
C29_FrozenForWholeWindow ==
    [][(FrameStep /\ InFreezeWindow) => NoObstacleMoved]_vars

\* C29, for a Freeze that no other activation cut short: on every tick that
\* begins less than 2000 ms of ticks after a successful activation of Freeze,
\* with no power activated since, no obstacle's position changes.
C29_FrozenUnlessInterrupted ==
    [][(FrameStep /\ InFreezeWindow /\ lastActivated = "freeze")
          => NoObstacleMoved]_vars

\* the tick that completes the 2000 ms, with an obstacle on the field
C29_Witness ==
    /\ FrameRan /\ lastActivated = "freeze" /\ since["freeze"] = FREEZE_DURATION
    /\ frame.timeMultiplier = 0 /\ ~powers["freeze"].active
    /\ \E i \in 1..Len(obstacleManager.obstacles) :
           obstacleManager.obstacles[i].x < CANVAS_WIDTH + 50

(* Properties of the powers over time *)
\* C31: while update keeps being called with a positive delta, every active
\* power becomes inactive and every power with a cooldown left becomes
\* available again, its cooldown 0.
C31_PowersComeToRest ==
    \A n \in PowerSet :
        /\ powers[n].active ~> ~powers[n].active
        /\ powers[n].cooldown > 0
              ~> (powers[n].cooldown = 0 /\ canActivatePower(PM, n))

\* a power that expired in an update is available again after a later one
C31_Witness ==
    /\ lastOp.op = "update" /\ lastOp.dt > 0
    /\ \E n \in PowerSet :
           /\ since[n] >= maxCooldown[n]
           /\ powers[n].cooldown = 0 /\ canActivatePower(PM, n)

(* Properties of the spawn cadence under a power *)
\* C32: the multiplier is fed into the spawn cadence, so that spawning is
\* slowed while obstacles are slowed and halted while they are frozen; in
\* particular no obstacle is spawned on a tick whose multiplier is 0.
C32_NoSpawnWhileFrozen ==
    FrameRan /\ frame.timeMultiplier = 0 => ~frame.spawned

(* Properties of the game outside a run *)
CoreFields ==
    <<score, timeElapsed, difficultyLevel, player, obstacleManager, pmVars>>

\* C33: while the state is not PLAYING, a frame changes neither the state nor
\* the score, timeElapsed, the level, the obstacles, the counters or any
\* power timer, and a power key activates nothing; these change only by a
\* start or a restart.
C33_IdleOutsidePlay ==
    [][state # GAME_STATES.PLAYING =>
          /\ lastOp'.op = "frame" => (~frame'.ran /\ UNCHANGED <<state, CoreFields>>)
          /\ lastOp'.op # "activate"
          /\ ~UNCHANGED CoreFields
                => lastOp'.op \in {"space", "restart"} /\ lastOp'.ok]_vars

\* a frame with a positive delta after the game is over, with an obstacle
\* stored and a score above zero
C33_Witness ==
    /\ lastOp.op = "frame" /\ ~lastOp.ok /\ lastOp.dt > 0
    /\ state = GAME_STATES.GAME_OVER
    /\ obstacleManager.obstacles # <<>> /\ score # NumZero

(* Properties that tie a power's cooldown to its duration *)
\* maxCooldown - maxDuration
CooldownLead == [freeze |-> 3000, slow |-> 1000, speed |-> 4500]

C35_SpawnedIsDestroyedPlusStored ==
    obstacleManager.totalSpawned
        = obstacleManager.totalDestroyed + Len(obstacleManager.obstacles)

\* an obstacle is spawned after another was removed
C35_Witness ==
    /\ lastOp.op = "spawnObstacle"
    /\ obstacleManager.totalDestroyed > 0 /\ obstacleManager.obstacles # <<>>

\* C36: whatever the sequence of start(), restart(), stop() calls and frame
\* callbacks, at most one gameLoop callback is scheduled at any time.
C36_AtMostOneScheduled == scheduled <= 1

\* the vertical extents of hazard o and of the player overlap
SameBand(o) ==
    /\ player.y < o.y + ObstacleHeight(o.type)
    /\ player.y + PLAYER_HEIGHT > o.y

\* C37: no hazard whose vertical extent overlaps the player's is ever counted
\* as passed: the collision is reported before its trailing edge is behind
\* the player's x, whatever the tick deltas.
C37_NoPassThroughPlayer ==
    \A i \in 1..Len(obstacleManager.obstacles) :
        LET o == obstacleManager.obstacles[i]
        IN SameBand(o) => o.counted = 0 /\ ~o.hasBeenPassed

\* the speed spawnObstacle gives at level
SpeedAtLevel(level) ==
    OBSTACLE_MIN_SPEED
    + (level * DIFFICULTY_SPEED_INCREASE_TENTHS * OBSTACLE_MIN_SPEED) \div 10

\* C38: a hazard's speed is fixed when it is spawned: every hazard that a
\* step keeps on the field has the speed it had before the step, whatever the
\* level has become, and a hazard spawned on a tick has the speed of the
\* level of that tick.
C38_SpeedFixedAtSpawn ==
    [][lastOp'.op = "frame" =>
          /\ \A i \in 1..Len(obstacleManager.obstacles) :
                \A j \in 1..Len(obstacleManager'.obstacles) :
                    obstacleManager.obstacles[i].serial
                        = obstacleManager'.obstacles[j].serial
                    => obstacleManager'.obstacles[j].speed
                           = obstacleManager.obstacles[i].speed
          /\ \A j \in 1..Len(obstacleManager'.obstacles) :
                obstacleManager'.obstacles[j].serial > obstacleManager.totalSpawned
                => obstacleManager'.obstacles[j].speed = SpeedAtLevel(difficultyLevel')]_vars

\* a tick at level 1 spawned a hazard while one spawned at level 0 is on
\* the field at its old speed
C38_Witness ==
    /\ FrameRan /\ frame.spawned /\ difficultyLevel = 1
    /\ \E i, j \in 1..Len(obstacleManager.obstacles) :
          /\ i < j
          /\ obstacleManager.obstacles[i].speed = SpeedAtLevel(0)
          /\ obstacleManager.obstacles[j].speed = SpeedAtLevel(1)

\* the key code has an effect in game state st
KeyActsIn(code, st) ==
    \/ code = "Space" /\ st = GAME_STATES.MENU
    \/ code = "KeyR" /\ st = GAME_STATES.GAME_OVER
    \/ code \in {"KeyF", "KeyQ", "KeyE"} /\ st = GAME_STATES.PLAYING

\* C39: a held key produces exactly one key-press action: the keydown of a
\* key that is not held makes the call of that key in the current state, and
\* a further keydown of the key while it is held (auto-repeat) calls nothing
\* and changes nothing, until a keyup, the only event to release the key.
C39_HeldKeyActsOnce ==
    [][/\ lastOp'.op = "keydown" =>
            /\ keyPressed'[lastOp'.power]
            /\ IF keyPressed[lastOp'.power]
               THEN /\ ~lastOp'.ok
                    /\ UNCHANGED <<state, CoreFields, isRunning, scheduled, keyPressed>>
               ELSE lastOp'.ok <=> KeyActsIn(lastOp'.power, state)
       /\ \A code \in KeyCodes :
            keyPressed[code] /\ ~keyPressed'[code]
            => lastOp'.op = "keyup" /\ lastOp'.power = code]_vars

\* a keydown of F, held since it activated Freeze, arrives once Freeze is
\* available again in the same run, and activates nothing
C39_Witness ==
    /\ lastOp.op = "keydown" /\ lastOp.power = "KeyF" /\ ~lastOp.ok
    /\ state = GAME_STATES.PLAYING
    /\ since["freeze"] >= 0 /\ canActivatePower(PM, "freeze")

====
